---- MODULE Spec2Model ----
\* The ollama proxy of src/main.py: one POST route that checks a shared-secret
\* token and relays the backend's streamed lines, re-shaped, to the caller.
\*
\* A request is followed from its arrival to its terminal state.  The steps are
\* the suspension points of the code: the handler `generate`, the first pull of
\* the response body (which starts the generator `re_stream` and opens the
\* backend call), each line read from the backend, each chunk handed to the
\* caller, and the ways the generator is left (end of the backend stream, an
\* exception, cancellation after the caller went away).
EXTENDS Integers, Sequences, FiniteSets, TLC

\* ------------------------------------------------------------------ bounds

\* Requests that can be in flight, lines one backend response carries, the
\* seconds one clock step advances, the horizon of the request clock, and the
\* lines of a backend response when two requests are interleaved.
NumRequests == 2
MaxLines == 3
TickSeconds == 60
MaxClock == 240
ConcMaxLines == 2

Requests == 1..NumRequests

\* ----------------------------------------------------------- configuration

\* class Conf (read-only after import).
Conf_token == "secret123"
Conf_model == "llama3.1:70b"
Conf_code == 401
Conf_detail == "token is not valid"
Conf_media == "application/json"
Conf_timeout == 120

\* Statuses the framework itself answers with.
HTTP_200_OK == 200
HTTP_422_UNPROCESSABLE == 422

\* ------------------------------------------------------------------ inputs

Tokens == {Conf_token, "wrongtoken", ""}
Questions == {"hi", "why"}

\* An inbound JSON body: the fields it carries.
Bodies ==
    {[question |-> q, token |-> t] : q \in Questions, t \in Tokens}
        \cup {[question |-> q] : q \in Questions}
        \cup {[token |-> t] : t \in Tokens}

\* A line of the backend's response as text: either a JSON object, given by its
\* members (key, value text), or text that is no JSON at all.
JsonText(members) == [json |-> TRUE, members |-> members]
NotJson == [json |-> FALSE, members |-> {}]

BackendLines ==
    { JsonText({<<"response", "H">>, <<"done", "false">>}),
      JsonText({<<"response", "i">>, <<"done", "true">>}),
      JsonText({<<"model", Conf_model>>, <<"response", "H">>, <<"done", "false">>}),
      JsonText({<<"response", "H">>}),
      JsonText({<<"done", "true">>}),
      JsonText({<<"error", "model not found">>}),
      NotJson }

\* ------------------------------------------------------------------- state

VARIABLES
    pc,         \* where each request is
    body,       \* the inbound body
    status,     \* the response status sent (0: none yet)
    detail,     \* the detail of an error response ("" when none)
    calls,      \* the payloads of the backend calls issued for the request
    stream,     \* the backend response stream: "none", "open" or "closed"
    emitted,    \* the lines the backend has written so far
    eof,        \* the backend has ended its response
    nread,      \* how many of the emitted lines the relay has read
    chunk,      \* the value yielded and not yet handed to the caller
    delivered,  \* the chunks the caller has received
    callerGone, \* the caller has disconnected
    detected,   \* the framework has noticed it and cancelled the relay
    raised,     \* the exception that ended the relay ("" when none)
    waited,     \* seconds the relay has been blocked on the backend
    clock       \* seconds since the backend call was issued

vars == <<pc, body, status, detail, calls, stream, emitted, eof, nread, chunk,
          delivered, callerGone, detected, raised, waited, clock>>

\* ------------------------------------------------------- the line transform

\* json.loads on a line: a dict of the members, true/false read as booleans;
\* JSONDecodeError on text that is no JSON.
JsonValue(text) == IF text \in {"true", "false"} THEN text = "true" ELSE text

json_loads(line) ==
    IF line.json
    THEN [raised |-> "",
          value |-> [k \in {m[1] : m \in line.members} |->
                        JsonValue(CHOOSE v \in {m[2] : m \in line.members} :
                                      <<k, v>> \in line.members)]]
    ELSE [raised |-> "JSONDecodeError", value |-> <<>>]

\* class APIResponse: the two fields of a forwarded line.
APIResponse(token, done) == [token |-> token, done |-> done]

\* BaseModel.model_dump_json: the object written back as JSON text.
model_dump_json(api_response) ==
    JsonText({<<"token", api_response.token>>,
              <<"done", IF api_response.done THEN "true" ELSE "false">>})

\* APIRequest._to_string: the JSON text and one newline.
_to_string(api_response) ==
    [text |-> model_dump_json(api_response), end |-> <<"\n">>]

\* The line handed on as it came (no re-shaping).
_process_line_passthrough(line) ==
    IF ~line.json THEN [raised |-> "JSONDecodeError", value |-> <<>>]
    ELSE [raised |-> "", value |-> [text |-> line, end |-> <<"\n">>]]

\* The transform with absent keys defaulted (response.get) instead of looked up.
_process_line_default(line) ==
    LET response == json_loads(line) IN
    IF response.raised # "" THEN [raised |-> response.raised, value |-> <<>>]
    ELSE LET get(k, v) == IF k \in DOMAIN response.value
                          THEN response.value[k] ELSE v IN
         [raised |-> "",
          value |-> _to_string(APIResponse(get("response", ""),
                                           get("done", FALSE)))]

\* APIRequest._process_line: response['response'] and response['done'] are
\* looked up in that order; a missing key raises KeyError.
_process_line(line) ==
    LET response == json_loads(line) IN
    IF response.raised # "" THEN [raised |-> response.raised, value |-> <<>>]
    ELSE IF "response" \notin DOMAIN response.value
              \/ "done" \notin DOMAIN response.value
         THEN [raised |-> "KeyError", value |-> <<>>]
         ELSE [raised |-> "",
               value |-> _to_string(APIResponse(response.value["response"],
                                                response.value["done"]))]

\* ------------------------------------------------------------ the handler

\* A check that only asks for a token to be there.
is_token_valid_nonempty(r) == body[r].token # ""

\* APIRequest.is_token_valid.
is_token_valid(r) == body[r].token = Conf_token

\* The payload with the wrong field of the request as prompt.
load_token(r) == [model |-> Conf_model, prompt |-> body[r].token]

\* The payload of re_stream's backend call.
load(r) == [model |-> Conf_model, prompt |-> body[r].question]

Terminal == {"invalid", "rejected", "finished", "failed", "cancelled"}
Relaying == {"created", "connecting", "reading", "yielded"}

\* No timeout given to client.stream.
TimerExpired_no_timeout(r) == FALSE

\* The relay is blocked on the backend: connecting, or reading with no line
\* buffered and the response not ended.  The timeout runs only then.
Blocked(r) ==
    \/ pc[r] = "connecting"
    \/ pc[r] = "reading" /\ nread[r] = Len(emitted[r]) /\ ~eof[r]

TimerExpired(r) == Blocked(r) /\ waited[r] >= Conf_timeout

InitOf(arriving) ==
    /\ pc = [r \in Requests |-> IF r \in arriving THEN "idle" ELSE "absent"]
    /\ body = [r \in Requests |-> [question |-> "", token |-> ""]]
    /\ status = [r \in Requests |-> 0]
    /\ detail = [r \in Requests |-> ""]
    /\ calls = [r \in Requests |-> <<>>]
    /\ stream = [r \in Requests |-> "none"]
    /\ emitted = [r \in Requests |-> <<>>]
    /\ eof = [r \in Requests |-> FALSE]
    /\ nread = [r \in Requests |-> 0]
    /\ chunk = [r \in Requests |-> <<>>]
    /\ delivered = [r \in Requests |-> <<>>]
    /\ callerGone = [r \in Requests |-> FALSE]
    /\ detected = [r \in Requests |-> FALSE]
    /\ raised = [r \in Requests |-> ""]
    /\ waited = [r \in Requests |-> 0]
    /\ clock = [r \in Requests |-> 0]

\* One request, followed alone.
Init == InitOf({1})

\* A POST arrives with body b.
Arrive(r, b) ==
    /\ pc[r] = "idle"
    /\ pc' = [pc EXCEPT ![r] = "received"]
    /\ body' = [body EXCEPT ![r] = b]
    /\ UNCHANGED <<status, detail, calls, stream, emitted, eof, nread, chunk,
                   delivered, callerGone, detected, raised, waited, clock>>

\* A schema that asks for the token only.
Validates_token_only(r) == "token" \in DOMAIN body[r]

\* The body parses as an APIRequest: `question` and `token` are both required.
Validates(r) == DOMAIN body[r] = {"question", "token"}

\* A handler whose response is not started before its body is produced.
generate_uncommitted(r) ==
    /\ pc[r] = "received"
    /\ IF ~Validates(r)
       THEN /\ pc' = [pc EXCEPT ![r] = "invalid"]
            /\ status' = [status EXCEPT ![r] = HTTP_422_UNPROCESSABLE]
            /\ UNCHANGED detail
       ELSE IF is_token_valid(r)
       THEN /\ pc' = [pc EXCEPT ![r] = "created"]
            /\ UNCHANGED <<status, detail>>
       ELSE /\ pc' = [pc EXCEPT ![r] = "rejected"]
            /\ status' = [status EXCEPT ![r] = Conf_code]
            /\ detail' = [detail EXCEPT ![r] = Conf_detail]
    /\ UNCHANGED <<body, calls, stream, emitted, eof, nread, chunk, delivered,
                   callerGone, detected, raised, waited, clock>>

\* The body is validated against APIRequest (both fields required), then
\* generate runs: a valid token returns the StreamingResponse over the not yet
\* started generator, any other token raises HTTPException(401).
generate(r) ==
    /\ pc[r] = "received"
    /\ IF ~Validates(r)
       THEN /\ pc' = [pc EXCEPT ![r] = "invalid"]
            /\ status' = [status EXCEPT ![r] = HTTP_422_UNPROCESSABLE]
            /\ UNCHANGED detail
       ELSE IF is_token_valid(r)
       THEN /\ pc' = [pc EXCEPT ![r] = "created"]
            /\ status' = [status EXCEPT ![r] = HTTP_200_OK]
            /\ UNCHANGED detail
       ELSE /\ pc' = [pc EXCEPT ![r] = "rejected"]
            /\ status' = [status EXCEPT ![r] = Conf_code]
            /\ detail' = [detail EXCEPT ![r] = Conf_detail]
    /\ UNCHANGED <<body, calls, stream, emitted, eof, nread, chunk, delivered,
                   callerGone, detected, raised, waited, clock>>

\* The task that produces the response runs until it is cancelled; from then
\* on the only step it takes is the delivery of the cancellation.
CanRun_uncancelled(r) == TRUE

CanRun(r) == ~detected[r]

\* A reader that runs ahead of the caller: it takes the next line while the
\* last chunk is still waiting to be written.
CanRead_ahead(r) == pc[r] \in {"reading", "yielded"}

\* The generator takes a line only when it is resumed, that is after the chunk
\* it yielded was written to the caller.
CanRead(r) == pc[r] = "reading"

\* The line of whichever response was opened first, as if the open response
\* were kept in a variable shared by all requests.
next_line_shared(r) ==
    LET first == CHOOSE q \in Requests :
                     stream[q] # "none" /\ \A o \in Requests : stream[o] # "none" => q <= o IN
    IF nread[r] < Len(emitted[first])
    THEN emitted[first][nread[r] + 1]
    ELSE emitted[r][nread[r] + 1]

\* aiter_lines: the next line of the response not yet handed out.
next_line_newest(r) == emitted[r][Len(emitted[r])]

next_line(r) == emitted[r][nread[r] + 1]

\* aiter_lines ends when the backend has ended its response and every line of
\* it was handed out; the content of a line never ends it.
Exhausted_at_done(r) ==
    \/ nread[r] = Len(emitted[r]) /\ eof[r]
    \/ nread[r] > 0 /\ <<"done", "true">> \in emitted[r][nread[r]].members

Exhausted(r) == nread[r] = Len(emitted[r]) /\ eof[r]

\* The framework pulls the response body for the first time: re_stream starts,
\* builds its payload and enters client.stream, which issues the backend call.
FirstPull(r) ==
    /\ pc[r] = "created"
    /\ CanRun(r)
    /\ pc' = [pc EXCEPT ![r] = "connecting"]
    /\ calls' = [calls EXCEPT ![r] = Append(@, load(r))]
    /\ UNCHANGED <<body, status, detail, stream, emitted, eof, nread, chunk,
                   delivered, callerGone, detected, raised, waited, clock>>

\* The backend answers: client.stream yields the response and the relay starts
\* to wait for lines.  The backend's status is not looked at.
Connected(r) ==
    /\ pc[r] = "connecting"
    /\ CanRun(r)
    /\ ~TimerExpired(r)
    /\ pc' = [pc EXCEPT ![r] = "reading"]
    /\ stream' = [stream EXCEPT ![r] = "open"]
    /\ waited' = [waited EXCEPT ![r] = 0]
    /\ UNCHANGED <<body, status, detail, calls, emitted, eof, nread, chunk,
                   delivered, callerGone, detected, raised, clock>>

\* A response that is only closed by hand after the loop.
StreamExit_leak(r) == stream[r]

\* The exit of `async with client.stream(...)`: an open response is closed.
StreamExit(r) == IF stream[r] = "open" THEN "closed" ELSE stream[r]

\* A relay that starts over after an exception.
Raise_retry(r, exc) ==
    /\ pc' = [pc EXCEPT ![r] = "created"]
    /\ raised' = [raised EXCEPT ![r] = exc]
    /\ stream' = [stream EXCEPT ![r] = StreamExit(r)]
    /\ chunk' = [chunk EXCEPT ![r] = <<>>]

\* An exception leaves re_stream through the `async with`; nothing catches it.
Raise(r, exc) ==
    /\ pc' = [pc EXCEPT ![r] = "failed"]
    /\ raised' = [raised EXCEPT ![r] = exc]
    /\ stream' = [stream EXCEPT ![r] = StreamExit(r)]
    /\ chunk' = [chunk EXCEPT ![r] = <<>>]

\* The connection to the backend cannot be made.
ConnectFail(r) ==
    /\ pc[r] = "connecting"
    /\ CanRun(r)
    /\ Raise(r, "ConnectError")
    /\ UNCHANGED <<body, status, detail, calls, emitted, eof, nread, delivered,
                   callerGone, detected, waited, clock>>

\* The connection breaks while the relay waits for data.
ReadFail(r) ==
    /\ pc[r] = "reading"
    /\ Blocked(r)
    /\ CanRun(r)
    /\ Raise(r, "ReadError")
    /\ UNCHANGED <<body, status, detail, calls, emitted, eof, nread, delivered,
                   callerGone, detected, waited, clock>>

\* timeout=Conf.timeout: the wait the relay is blocked in has lasted that long.
Timeout(r) ==
    /\ TimerExpired(r)
    /\ CanRun(r)
    /\ Raise(r, IF pc[r] = "connecting" THEN "ConnectTimeout" ELSE "ReadTimeout")
    /\ UNCHANGED <<body, status, detail, calls, emitted, eof, nread, delivered,
                   callerGone, detected, waited, clock>>

\* The backend writes line l of its response.
BackendEmit(r, l) ==
    /\ stream[r] = "open"
    /\ ~eof[r]
    /\ ~TimerExpired(r)
    /\ Len(emitted[r]) < MaxLines
    /\ emitted' = [emitted EXCEPT ![r] = Append(@, l)]
    /\ waited' = [waited EXCEPT ![r] = 0]
    /\ UNCHANGED <<pc, body, status, detail, calls, stream, eof, nread, chunk,
                   delivered, callerGone, detected, raised, clock>>

\* The backend writes part of a line: data arrives, no line is complete.
BackendPartial(r) ==
    /\ pc[r] = "reading"
    /\ Blocked(r)
    /\ waited[r] > 0
    /\ ~TimerExpired(r)
    /\ waited' = [waited EXCEPT ![r] = 0]
    /\ UNCHANGED <<pc, body, status, detail, calls, stream, emitted, eof, nread,
                   chunk, delivered, callerGone, detected, raised, clock>>

\* The backend ends its response.
BackendEnd(r) ==
    /\ stream[r] = "open"
    /\ ~eof[r]
    /\ ~TimerExpired(r)
    /\ eof' = [eof EXCEPT ![r] = TRUE]
    /\ waited' = [waited EXCEPT ![r] = 0]
    /\ UNCHANGED <<pc, body, status, detail, calls, stream, emitted, nread, chunk,
                   delivered, callerGone, detected, raised, clock>>

\* `async for line in response.aiter_lines(): yield await _process_line(line)`:
\* the next line is taken and transformed; the result is yielded, or the
\* exception of the transform leaves the generator.
ReadLine(r) ==
    /\ CanRead(r)
    /\ CanRun(r)
    /\ nread[r] < Len(emitted[r])
    /\ LET result == _process_line(next_line(r)) IN
       /\ nread' = [nread EXCEPT ![r] = @ + 1]
       /\ IF result.raised = ""
          THEN /\ pc' = [pc EXCEPT ![r] = "yielded"]
               /\ chunk' = [chunk EXCEPT ![r] = <<result.value>>]
               /\ UNCHANGED <<stream, raised>>
          ELSE Raise(r, result.raised)
    /\ UNCHANGED <<body, status, detail, calls, emitted, eof, delivered,
                   callerGone, detected, waited, clock>>

\* The yielded chunk is written to the caller and the body is pulled again.
Send(r) ==
    /\ pc[r] = "yielded"
    /\ CanRun(r)
    /\ ~callerGone[r]
    /\ delivered' = [delivered EXCEPT ![r] = @ \o chunk[r]]
    /\ chunk' = [chunk EXCEPT ![r] = <<>>]
    /\ pc' = [pc EXCEPT ![r] = "reading"]
    /\ UNCHANGED <<body, status, detail, calls, stream, emitted, eof, nread,
                   callerGone, detected, raised, waited, clock>>

\* aiter_lines is exhausted: the loop ends and the `async with` closes the
\* response.
EndOfStream(r) ==
    /\ pc[r] = "reading"
    /\ CanRun(r)
    /\ Exhausted(r)
    /\ pc' = [pc EXCEPT ![r] = "finished"]
    /\ stream' = [stream EXCEPT ![r] = StreamExit(r)]
    /\ UNCHANGED <<body, status, detail, calls, emitted, eof, nread, chunk,
                   delivered, callerGone, detected, raised, waited, clock>>

\* The caller goes away while its response is being produced.
Disconnect(r) ==
    /\ pc[r] \in Relaying
    /\ ~callerGone[r]
    /\ callerGone' = [callerGone EXCEPT ![r] = TRUE]
    /\ UNCHANGED <<pc, body, status, detail, calls, stream, emitted, eof, nread,
                   chunk, delivered, detected, raised, waited, clock>>

\* The framework notices the disconnect and cancels the task of the response.
Detect(r) ==
    /\ pc[r] \in Relaying
    /\ callerGone[r]
    /\ ~detected[r]
    /\ detected' = [detected EXCEPT ![r] = TRUE]
    /\ UNCHANGED <<pc, body, status, detail, calls, stream, emitted, eof, nread,
                   chunk, delivered, callerGone, raised, waited, clock>>

\* The cancelled task runs: the cancellation is thrown into re_stream where it
\* is suspended and leaves through the `async with`; a generator that was
\* never started is dropped.
Cancel(r) ==
    /\ pc[r] \in Relaying
    /\ detected[r]
    /\ pc' = [pc EXCEPT ![r] = "cancelled"]
    /\ raised' = [raised EXCEPT ![r] = "CancelledError"]
    /\ stream' = [stream EXCEPT ![r] = StreamExit(r)]
    /\ chunk' = [chunk EXCEPT ![r] = <<>>]
    /\ UNCHANGED <<body, status, detail, calls, emitted, eof, nread, delivered,
                   callerGone, detected, waited, clock>>

\* Time passes for a request whose backend call is under way.  The timeout
\* counts only the wait the relay is blocked in, and fires when it is reached.
Min(a, b) == IF a < b THEN a ELSE b

Tick(r) ==
    /\ pc[r] \in {"connecting", "reading", "yielded"}
    /\ ~TimerExpired(r)
    /\ clock[r] < MaxClock
    /\ LET step == IF Blocked(r)
                   THEN Min(TickSeconds, Conf_timeout - waited[r])
                   ELSE TickSeconds IN
       /\ clock' = [clock EXCEPT ![r] = @ + step]
       /\ waited' = [waited EXCEPT ![r] = IF Blocked(r) THEN @ + step ELSE @]
    /\ UNCHANGED <<pc, body, status, detail, calls, stream, emitted, eof, nread,
                   chunk, delivered, callerGone, detected, raised>>

Next ==
    \E r \in Requests :
        \/ \E b \in Bodies : Arrive(r, b)
        \/ generate(r)
        \/ FirstPull(r)
        \/ Connected(r)
        \/ ConnectFail(r)
        \/ ReadFail(r)
        \/ Timeout(r)
        \/ \E l \in BackendLines : BackendEmit(r, l)
        \/ BackendPartial(r)
        \/ BackendEnd(r)
        \/ ReadLine(r)
        \/ Send(r)
        \/ EndOfStream(r)
        \/ Disconnect(r)
        \/ Detect(r)
        \/ Cancel(r)
        \/ Tick(r)

Spec == Init /\ [][Next]_vars

\* Two requests in flight at once, their steps interleaved in every order.
\* Each is given one of a few bodies and its backend one of a few lines; time
\* is left out.
ConcBodies ==
    {[question |-> "hi", token |-> Conf_token],
     [question |-> "why", token |-> "wrongtoken"]}

ConcLines ==
    { JsonText({<<"model", Conf_model>>, <<"response", "H">>, <<"done", "false">>}),
      JsonText({<<"response", "i">>, <<"done", "true">>}) }

InitConc == InitOf({1, 2})

NextConc ==
    \E r \in Requests :
        \/ \E b \in ConcBodies : Arrive(r, b)
        \/ generate(r)
        \/ FirstPull(r)
        \/ Connected(r)
        \/ ConnectFail(r)
        \/ ReadFail(r)
        \/ \E l \in ConcLines :
               Len(emitted[r]) < ConcMaxLines /\ BackendEmit(r, l)
        \/ BackendEnd(r)
        \/ ReadLine(r)
        \/ Send(r)
        \/ EndOfStream(r)
        \/ Disconnect(r)
        \/ Detect(r)
        \/ Cancel(r)

SpecConc == InitConc /\ [][NextConc]_vars

\* ------------------------------------------------------------ properties

\* What the properties say about lines, read off the text of a line.
HasField(line, k) == \E m \in line.members : m[1] = k

Field(line, k) ==
    IF HasField(line, k)
    THEN CHOOSE v \in {m[2] : m \in line.members} : <<k, v>> \in line.members
    ELSE ""

Malformed(line) ==
    ~line.json \/ ~HasField(line, "response") \/ ~HasField(line, "done")

\* The forwarded form of a well-formed backend line.
Forwarded(line) ==
    [text |-> [json |-> TRUE,
               members |-> {<<"token", Field(line, "response")>>,
                            <<"done", Field(line, "done")>>}],
     end |-> <<"\n">>]

\* The request reached the handler: its body has both fields of APIRequest.
Handled(r) ==
    pc[r] \notin {"absent", "idle"} /\ DOMAIN body[r] = {"question", "token"}

BackendFailures == {"ConnectError", "ConnectTimeout", "ReadError", "ReadTimeout"}

\* C1: a request whose token differs from the configured secret never causes a
\* backend call, at any point of its life, and is answered 401 with the detail
\* "token is not valid".
C1_BadTokenRejected ==
    \A r \in Requests :
        (Handled(r) /\ body[r].token # "secret123") =>
            /\ calls[r] = <<>>
            /\ stream[r] = "none"
            /\ pc[r] \in {"received", "rejected"}
            /\ pc[r] = "rejected" =>
                   status[r] = 401 /\ detail[r] = "token is not valid"

C1_Witness ==
    \E r \in Requests :
        pc[r] = "rejected" /\ body[r].token = "wrongtoken" /\ status[r] = 401

\* C2 as stated: a request with the configured token has, when it is over,
\* caused exactly one backend call, with the default model and its question.
C2_ExactlyOneCall ==
    \A r \in Requests :
        (Handled(r) /\ body[r].token = "secret123" /\ pc[r] \in Terminal) =>
            calls[r] = <<[model |-> "llama3.1:70b", prompt |-> body[r].question]>>

\* C2 amended: a request with the configured token causes at most one backend
\* call: none until the response body is first pulled, one from then on (no
\* second call, no retry), none at all when the response is cancelled before
\* its body is pulled; the call's payload is the default model and the
\* request's question.
C2_AtMostOneCall ==
    \A r \in Requests :
        (Handled(r) /\ body[r].token = "secret123") =>
            /\ Len(calls[r]) <= 1
            /\ pc[r] \in {"received", "created"} => calls[r] = <<>>
            /\ (pc[r] \in {"connecting", "reading", "yielded", "finished", "failed"}
                    \/ stream[r] # "none") => Len(calls[r]) = 1
            /\ (pc[r] = "cancelled" /\ calls[r] = <<>>) =>
                   callerGone[r] /\ stream[r] = "none" /\ delivered[r] = <<>>
            /\ \A i \in 1..Len(calls[r]) :
                   calls[r][i] = [model |-> "llama3.1:70b",
                                  prompt |-> body[r].question]

C2_Witness ==
    \E r \in Requests :
        /\ pc[r] = "finished"
        /\ Len(calls[r]) = 1
        /\ calls[r][1].prompt = "why"
        /\ Len(delivered[r]) >= 1

\* C3: when the backend's response ends normally, the caller has received the
\* forwarded form of every backend line, in the backend's order, one chunk per
\* line, each ending in exactly one newline.
C3_OrderPreserved ==
    \A r \in Requests :
        pc[r] = "finished" =>
            /\ Len(delivered[r]) = Len(emitted[r])
            /\ \A i \in 1..Len(emitted[r]) :
                   /\ delivered[r][i] = Forwarded(emitted[r][i])
                   /\ delivered[r][i].end = <<"\n">>

C3_Witness ==
    \E r \in Requests :
        /\ pc[r] = "finished"
        /\ Len(delivered[r]) = 3
        /\ delivered[r][1] # delivered[r][2]
        /\ emitted[r][2] # emitted[r][3]

\* C4: no request is over with its backend response stream still open, however
\* the relay was left: end of the backend's response, an exception while
\* reading or transforming a line, or cancellation after the caller went away.
C4_StreamClosedOnExit ==
    \A r \in Requests :
        /\ pc[r] \in Terminal => stream[r] # "open"
        /\ stream[r] = "open" => pc[r] \in {"reading", "yielded"}
        /\ (pc[r] \in {"finished", "failed", "cancelled"} /\ nread[r] > 0) =>
               stream[r] = "closed"

C4_Witness ==
    \E r \in Requests :
        /\ pc[r] = "cancelled"
        /\ stream[r] = "closed"
        /\ nread[r] = 2
        /\ Len(delivered[r]) = 1

\* C5: once the caller's disconnect is detected, no further line is read from
\* the backend and none is delivered, and the next step the relay takes closes
\* the backend stream.
C5_DisconnectStopsReads ==
    [][\A r \in Requests :
           detected[r] =>
               /\ nread'[r] = nread[r]
               /\ delivered'[r] = delivered[r]
               /\ pc'[r] # pc[r] => pc'[r] = "cancelled" /\ stream'[r] # "open"]_vars

C5_Witness ==
    \E r \in Requests :
        /\ pc[r] = "cancelled"
        /\ stream[r] = "closed"
        /\ Len(delivered[r]) >= 1
        /\ nread[r] < Len(emitted[r])

\* C6: a backend line with response f and done d is yielded as the JSON object
\* with exactly the members token: f and done: d, followed by one newline;
\* no other member of the backend line appears in it.
C6_Reshaped ==
    \A r \in Requests :
        pc[r] = "yielded" =>
            LET line == emitted[r][nread[r]] IN
            /\ Len(chunk[r]) = 1
            /\ \E f \in {m[2] : m \in line.members}, d \in {"true", "false"} :
                   /\ <<"response", f>> \in line.members
                   /\ <<"done", d>> \in line.members
                   /\ chunk[r][1].text = [json |-> TRUE,
                                          members |-> {<<"token", f>>, <<"done", d>>}]
                   /\ chunk[r][1].end = <<"\n">>

C6_Witness ==
    \E r \in Requests :
        /\ pc[r] = "yielded"
        /\ HasField(emitted[r][nread[r]], "model")
        /\ <<"token", "H">> \in chunk[r][1].text.members

\* C7: a line with done: true does not end the relay: the relay ends normally
\* only when the backend has ended its response, and then every line, those
\* after a done: true line included, was read and forwarded.
C7_NoEarlyStop ==
    \A r \in Requests :
        pc[r] = "finished" =>
            /\ eof[r]
            /\ nread[r] = Len(emitted[r])
            /\ \A i \in 1..Len(emitted[r]) :
                   (\E j \in 1..(i - 1) : Field(emitted[r][j], "done") = "true") =>
                       /\ i <= Len(delivered[r])
                       /\ <<"token", Field(emitted[r][i], "response")>>
                              \in delivered[r][i].text.members

C7_Witness ==
    \E r \in Requests :
        /\ pc[r] = "finished"
        /\ Len(emitted[r]) >= 2
        /\ Field(emitted[r][1], "done") = "true"
        /\ Len(delivered[r]) = Len(emitted[r])

\* C8: a backend line that is no JSON, or lacks response or done, ends the
\* relay with the exception of the transform: it is the last line read, neither
\* it nor a later line is forwarded, the lines before it stay delivered, and
\* the caller gets no error payload (the response stays the 200 it was).
C8_MalformedAborts ==
    \A r \in Requests :
        \A i \in 1..nread[r] :
            Malformed(emitted[r][i]) =>
                /\ i = nread[r]
                /\ pc[r] = "failed"
                /\ raised[r] \in {"JSONDecodeError", "KeyError"}
                /\ chunk[r] = <<>>
                /\ Len(delivered[r]) = i - 1
                /\ \A j \in 1..(i - 1) : delivered[r][j] = Forwarded(emitted[r][j])
                /\ status[r] = 200
                /\ detail[r] = ""

C8_Witness ==
    \E r \in Requests :
        /\ pc[r] = "failed"
        /\ raised[r] = "KeyError"
        /\ nread[r] = 2
        /\ emitted[r][2] = JsonText({<<"response", "H">>})
        /\ Len(emitted[r]) = 3
        /\ Len(delivered[r]) = 1

\* C9: a backend connection failure or timeout ends the request: there was one
\* backend call and there is no second, the response stays the 200 without
\* detail, and the caller holds the forwarded lines read before the failure and
\* nothing else: none at all when the backend had sent nothing.
C9_NoRetryNoErrorBody ==
    \A r \in Requests :
        raised[r] \in BackendFailures =>
            /\ pc[r] = "failed"
            /\ Len(calls[r]) = 1
            /\ status[r] = 200
            /\ detail[r] = ""
            /\ chunk[r] = <<>>
            /\ Len(delivered[r]) = nread[r]
            /\ nread[r] <= Len(emitted[r])
            /\ \A j \in 1..Len(delivered[r]) :
                   delivered[r][j] = Forwarded(emitted[r][j])
            /\ raised[r] \in {"ConnectError", "ConnectTimeout"} => emitted[r] = <<>>

C9_Witness ==
    \E r \in Requests :
        /\ raised[r] = "ReadTimeout"
        /\ emitted[r] = <<>>
        /\ delivered[r] = <<>>
        /\ clock[r] >= 120

\* C10 as stated: the timeout bounds the backend call as a whole: once the call
\* has lasted longer than the timeout, the relay is not connecting, reading or
\* yielding any more, except to end with the timeout.
C10_WholeCallBounded ==
    \A r \in Requests :
        (pc[r] \in {"connecting", "reading", "yielded"} /\ clock[r] > 120) =>
            (Blocked(r) /\ waited[r] >= 120)

\* C10 amended: the timeout bounds each wait on the backend by itself (the
\* wait for the connection, and each wait for more response data), not the
\* call as a whole; when one such wait reaches it the relay ends with a
\* timeout, the backend stream is closed and no further line is read or
\* delivered.
C10_EachWaitBounded ==
    /\ [](\A r \in Requests :
              /\ waited[r] <= 120
              /\ raised[r] \in {"ConnectTimeout", "ReadTimeout"} =>
                     pc[r] = "failed" /\ stream[r] # "open" /\ waited[r] = 120)
    /\ [][\A r \in Requests :
              (Blocked(r) /\ waited[r] >= 120) =>
                  /\ emitted'[r] = emitted[r]
                  /\ nread'[r] = nread[r]
                  /\ delivered'[r] = delivered[r]
                  /\ pc'[r] \in {pc[r], "failed", "cancelled"}]_vars

C10_Witness ==
    \E r \in Requests :
        /\ raised[r] = "ReadTimeout"
        /\ Len(delivered[r]) >= 2
        /\ clock[r] > 120
        /\ waited[r] = 120

\* Everything the model holds about one request.
ReqState(r) ==
    <<pc[r], body[r], status[r], detail[r], calls[r], stream[r], emitted[r],
      eof[r], nread[r], chunk[r], delivered[r], callerGone[r], detected[r],
      raised[r], waited[r], clock[r]>>

C13_PureTransform ==
    \A r1 \in Requests, r2 \in Requests :
        \A i \in 1..Len(delivered[r1]), j \in 1..Len(delivered[r2]) :
            (/\ Field(emitted[r1][i], "response") = Field(emitted[r2][j], "response")
             /\ Field(emitted[r1][i], "done") = Field(emitted[r2][j], "done")) =>
                delivered[r1][i] = delivered[r2][j]

C13_Witness ==
    \E r \in Requests :
        /\ Len(delivered[r]) = 3
        /\ emitted[r][1] # emitted[r][3]
        /\ HasField(emitted[r][3], "model")
        /\ delivered[r][1] = delivered[r][3]
        /\ delivered[r][2] # delivered[r][1]

\* C14: the relay reads a line only when every line read before it has been
\* handed to the caller: at most one line is read and not forwarded, and that
\* one is the chunk being handed over (or the line whose read ended the relay).
C14_PullBased ==
    \A r \in Requests :
        /\ nread[r] - Len(delivered[r]) \in {0, 1}
        /\ pc[r] = "reading" => nread[r] = Len(delivered[r]) /\ chunk[r] = <<>>
        /\ pc[r] = "yielded" => nread[r] = Len(delivered[r]) + 1 /\ Len(chunk[r]) = 1
        /\ Len(chunk[r]) <= 1

\* The first line is in the caller's hands while the backend has neither sent
\* a second line nor ended its response.
C14_Witness ==
    \E r \in Requests :
        /\ pc[r] = "reading"
        /\ Len(delivered[r]) = 1
        /\ Len(emitted[r]) = 1
        /\ ~eof[r]

\* C15: at every point of a request, however it goes on or ends, the chunks
\* delivered are the forwarded forms of the first lines the backend has
\* emitted, one per line and in their order.
C15_DeliveredIsPrefix ==
    \A r \in Requests :
        /\ Len(delivered[r]) <= nread[r]
        /\ nread[r] <= Len(emitted[r])
        /\ \A i \in 1..Len(delivered[r]) :
               /\ ~Malformed(emitted[r][i])
               /\ delivered[r][i] = Forwarded(emitted[r][i])

C15_Witness ==
    \E r \in Requests :
        /\ pc[r] = "failed"
        /\ raised[r] = "ReadError"
        /\ Len(delivered[r]) = 2
        /\ delivered[r][1] # delivered[r][2]

\* C16: the response of a request with the configured token is 200 before its
\* backend call is issued (the call is issued by a step of its own, after the
\* handler returned), and stays 200 whatever happens to the call.
C16_CommittedBeforeCall ==
    /\ [](\A r \in Requests :
              (calls[r] # <<>> \/ raised[r] # "" \/ pc[r] \in Relaying) =>
                  status[r] = 200)
    /\ [][\A r \in Requests :
              /\ calls'[r] # calls[r] =>
                     status[r] = 200 /\ pc[r] = "created" /\ stream[r] = "none"
              /\ status[r] = 200 => status'[r] = 200]_vars

C16_Witness ==
    \E r \in Requests :
        /\ pc[r] = "failed"
        /\ raised[r] = "KeyError"
        /\ nread[r] = 1
        /\ HasField(emitted[r][1], "error")
        /\ status[r] = 200
        /\ delivered[r] = <<>>

====
